---- MODULE Spec2Model ----
\* Image service: four request handlers (upload, list, get, delete) over an
\* object store (S3) and a record store (DynamoDB).  A handler invocation
\* runs in a slot of Procs and advances one storage-adapter call at a time;
\* every adapter call either goes through or fails in the backend.
EXTENDS Integers, Sequences, FiniteSets, TLC

\* ---------------------------------------------------------------- bounds
\* Number of image ids uuid4 hands out (uploads that get past validation).
MaxUploads == 2

Procs == {"p1", "p2"}
ImageIds == 1..MaxUploads

\* ------------------------------------------------------- Python values
\* Optional values: None is the empty tuple, a present value v is <<v>>.
None == <<>>
Some(v) == <<v>>
Val(o) == o[1]

\* dict.get(key, default)
DictGet(o, default) == IF o = None THEN default ELSE Val(o)

\* str.lower() on the flag values the requests carry
Lower(s) == IF s = "TRUE" THEN "true" ELSE s

\* An int as Python holds it, as DynamoDB stores it (type N) and as the boto3
\* resource hands it back (decimal.Decimal).
PyInt(n) == [t |-> "int", v |-> n]

\* ------------------------------------------------------------- base64
\* Bytes are sequences over 0..255; base64 text is a sequence of sextets
\* 0..63, with 64 standing for the pad character '='.
Pad == 64

RECURSIVE b64encode(_)
b64encode(bs) ==
    IF Len(bs) = 0 THEN <<>>
    ELSE IF Len(bs) = 1 THEN
        <<bs[1] \div 4, (bs[1] % 4) * 16, Pad, Pad>>
    ELSE IF Len(bs) = 2 THEN
        <<bs[1] \div 4, (bs[1] % 4) * 16 + (bs[2] \div 16), (bs[2] % 16) * 4, Pad>>
    ELSE
        <<bs[1] \div 4, (bs[1] % 4) * 16 + (bs[2] \div 16),
          (bs[2] % 16) * 4 + (bs[3] \div 64), bs[3] % 64>>
        \o b64encode(SubSeq(bs, 4, Len(bs)))

\* b64decode: [ok, bytes]; ok = FALSE is binascii.Error (incorrect padding).
RECURSIVE b64decode(_)
b64decode(s) ==
    IF Len(s) = 0 THEN [ok |-> TRUE, bytes |-> <<>>]
    ELSE IF Len(s) < 4 \/ s[1] = Pad \/ s[2] = Pad THEN [ok |-> FALSE, bytes |-> <<>>]
    ELSE IF s[3] = Pad THEN
        IF s[4] = Pad /\ Len(s) = 4
        THEN [ok |-> TRUE, bytes |-> <<s[1] * 4 + (s[2] \div 16)>>]
        ELSE [ok |-> FALSE, bytes |-> <<>>]
    ELSE IF s[4] = Pad THEN
        IF Len(s) = 4
        THEN [ok |-> TRUE, bytes |-> <<s[1] * 4 + (s[2] \div 16),
                                       (s[2] % 16) * 16 + (s[3] \div 4)>>]
        ELSE [ok |-> FALSE, bytes |-> <<>>]
    ELSE
        LET rest == b64decode(SubSeq(s, 5, Len(s)))
        IN  [ok |-> rest.ok,
             bytes |-> <<s[1] * 4 + (s[2] \div 16),
                         (s[2] % 16) * 16 + (s[3] \div 4),
                         (s[3] % 4) * 64 + s[4]>> \o rest.bytes]

\* ------------------------------------------------------------ requests
\* The blobs clients upload, the empty blob among them.
Blobs == {<<>>, <<72, 105>>, <<255, 0, 128, 7>>}

\* A request body: every key is optional.
Body(image, user_id, title, description, tags, content_type) ==
    [image |-> image, user_id |-> user_id, title |-> title,
     description |-> description, tags |-> tags, content_type |-> content_type]

UploadBodies ==
    { Body(None, Some("u1"), None, None, None, None),
      Body(Some(b64encode(<<72, 105>>)), None, None, None, None, None),
      Body(Some(<<18, 6, 37>>), Some("u1"), None, None, None, None),
      Body(Some(b64encode(<<>>)), Some("u1"), None, None, Some(<<>>), None),
      Body(Some(b64encode(<<72, 105>>)), Some("u1"), None, None, None, None),
      Body(Some(b64encode(<<255, 0, 128, 7>>)), Some("u2"), Some("sunset"),
           Some("at sea"), Some(<<"a", "b">>), Some("image/png")) }

Query(url, download, user_id, tag) ==
    [url |-> url, download |-> download, user_id |-> user_id, tag |-> tag]

Event(body, path, query) ==
    [body |-> body, pathParameters |-> path, queryStringParameters |-> query]

NoEvent == Event(None, None, None)

\* A body that arrives as a string: <<"str", text>>.
StrBody(text) == <<"str", text>>

IsStr(body) == Len(body) = 2

\* Bodies as dicts, two string bodies (JSON null and malformed JSON; a string
\* that parses to a dict behaves as that dict), and an event without body.
UploadEvents ==
    { Event(Some(b), None, None) : b \in UploadBodies }
    \cup { Event(StrBody(s), None, None) : s \in {"null", "{"} }
    \cup { Event(None, None, None) }

\* pathParameters: missing or null (None), without image_id, or with one.
PathParams ==
    {None, Some([image_id |-> None])}
    \cup { Some([image_id |-> Some(i)]) : i \in ImageIds }

GetQueries ==
    { None,
      Some(Query(Some("true"), None, None, None)),
      Some(Query(Some("false"), Some("TRUE"), None, None)),
      Some(Query(Some("TRUE"), Some("true"), None, None)) }

GetEvents ==
    { Event(None, Some([image_id |-> Some(i)]), q) : i \in ImageIds, q \in GetQueries }
    \cup { Event(None, pp, None) : pp \in PathParams }

DeleteEvents == { Event(None, pp, None) : pp \in PathParams }

ListQueries ==
    { None,
      Some(Query(None, None, None, None)),
      Some(Query(None, None, Some("u1"), None)),
      Some(Query(None, None, None, Some("a"))),
      Some(Query(None, None, None, Some("b"))),
      Some(Query(None, None, Some("u2"), Some("b"))) }

ListEvents == { Event(None, None, q) : q \in ListQueries }

\* ----------------------------------------------------------- responses
NoResp ==
    [statusCode |-> 0, error |-> "", message |-> "", image_id |-> 0,
     metadata |-> None, url |-> None, image_data |-> None, content_type |-> None,
     s3_deleted |-> None, metadata_deleted |-> None, count |-> None, images |-> <<>>]

ErrorResp(code, msg) == [NoResp EXCEPT !.statusCode = code, !.error = msg]

\* ---------------------------------------------------------------- state
VARIABLES
    s3,        \* object store: image id -> None | Some([Body, ContentType])
    db,        \* record store: image id -> None | Some(item)
    inv,       \* the invocation running (or last run) in each slot
    nextId,    \* number of ids uuid4 has generated
    clock,     \* datetime.utcnow()
    intact,    \* history: image id -> the image text of its 201 upload, until
               \* a delete removes its blob or its record
    del200,    \* history: ids for which a delete returned 200
    partial    \* history: ids for which a delete ended with the blob
               \* deleted and the record delete failed

vars == <<s3, db, inv, nextId, clock, intact, del200, partial>>

Idle ==
    [handler |-> "none", pc |-> "idle", event |-> NoEvent, image_id |-> 0,
     image_data |-> <<>>, content_type |-> "", metadata |-> None,
     s3_deleted |-> FALSE, filters |-> None, images |-> <<>>, calls |-> <<>>, faults |-> <<>>,
     afterDel |-> FALSE, afterUp |-> FALSE, resp |-> NoResp]

Init ==
    /\ s3 = [i \in ImageIds |-> None]
    /\ db = [i \in ImageIds |-> None]
    /\ inv = [p \in Procs |-> Idle]
    /\ nextId = 0
    /\ clock = 0
    /\ intact = [i \in ImageIds |-> None]
    /\ del200 = {}
    /\ partial = {}

Free(p) == inv[p].pc \in {"idle", "done"}

\* A handler's return: the response, with the locals no later step reads reset.
Respond(rec, r) ==
    [rec EXCEPT !.pc = "done", !.resp = r, !.image_data = <<>>,
                !.content_type = "", !.metadata = None, !.s3_deleted = FALSE]

\* Call that tries a failed adapter call a second time
Call_Retry(rec, name, ok) ==
    IF ok
    THEN [rec EXCEPT !.calls = Append(@, name), !.faults = Append(@, FALSE)]
    ELSE [rec EXCEPT !.calls = Append(Append(@, name), name),
                     !.faults = Append(Append(@, TRUE), TRUE)]

\* One storage adapter call: log it and whether the backend failed in it.
Call(rec, name, ok) ==
    [rec EXCEPT !.calls = Append(@, name), !.faults = Append(@, ~ok)]

\* ------------------------------------------------- object store adapter
\* Each adapter operation takes the store, its arguments and ok: whether the
\* backend call went through (ok = FALSE: boto3 raised, the adapter caught it).

\* upload_image that swallows the backend error and reports success
upload_image_Silent(store, image_id, image_data, content_type, ok) ==
    [ret |-> TRUE,
     s3 |-> IF ok
            THEN [store EXCEPT ![image_id] =
                      Some([Body |-> image_data, ContentType |-> content_type])]
            ELSE store]

\* upload_image that raises after the object was written
upload_image_LateError(store, image_id, image_data, content_type, ok) ==
    [ret |-> ok,
     s3 |-> [store EXCEPT ![image_id] =
                 Some([Body |-> image_data, ContentType |-> content_type])]]

\* s3_utils.upload_image: [ret, s3]
upload_image(store, image_id, image_data, content_type, ok) ==
    IF ok
    THEN [ret |-> TRUE,
          s3 |-> [store EXCEPT ![image_id] =
                      Some([Body |-> image_data, ContentType |-> content_type])]]
    ELSE [ret |-> FALSE, s3 |-> store]

\* download_image that misses the object it is asked for
download_image_Miss(store, image_id, ok) == None

\* s3_utils.download_image: None | Some(bytes); a missing key raises NoSuchKey
download_image(store, image_id, ok) ==
    IF ok /\ store[image_id] # None
    THEN Some(Val(store[image_id]).Body)
    ELSE None

\* delete_image that raises after the object was removed
s3_delete_image_LateError(store, image_id, ok) ==
    [ret |-> ok, s3 |-> [store EXCEPT ![image_id] = None]]

\* delete_image that fails on a key that is not there
s3_delete_image_Strict(store, image_id, ok) ==
    IF ok /\ store[image_id] # None
    THEN [ret |-> TRUE, s3 |-> [store EXCEPT ![image_id] = None]]
    ELSE [ret |-> FALSE, s3 |-> store]

\* s3_utils.delete_image (imported as s3_delete_image): [ret, s3]; deleting
\* a missing key succeeds
s3_delete_image(store, image_id, ok) ==
    IF ok
    THEN [ret |-> TRUE, s3 |-> [store EXCEPT ![image_id] = None]]
    ELSE [ret |-> FALSE, s3 |-> store]

\* get_image_url that looks the object up before signing
get_image_url_HeadObject(image_id, expiration, ok) ==
    IF ok /\ s3[image_id] # None
    THEN Some([key |-> image_id, expires |-> expiration])
    ELSE None

\* s3_utils.get_image_url: None | Some(url); signing reads no object
get_image_url(image_id, expiration, ok) ==
    IF ok THEN Some([key |-> image_id, expires |-> expiration]) ELSE None

\* ------------------------------------------------- record store adapter
\* boto3's serializer: a Python int is stored as a DynamoDB number (N) ...
ToDynamo(metadata) == [metadata EXCEPT !.size = [t |-> "N", v |-> @.v]]

\* ... and its deserializer hands every number back as decimal.Decimal.
FromDynamo(item) == [item EXCEPT !.size = [t |-> "Decimal", v |-> @.v]]

\* save_image_metadata that raises after the item was written
save_image_metadata_LateError(table, metadata, ok) ==
    [ret |-> ok,
     db |-> [table EXCEPT ![metadata.image_id] = Some(ToDynamo(metadata))]]

\* dynamodb_utils.save_image_metadata: [ret, db]
save_image_metadata(table, metadata, ok) ==
    IF ok
    THEN [ret |-> TRUE,
          db |-> [table EXCEPT ![metadata.image_id] = Some(ToDynamo(metadata))]]
    ELSE [ret |-> FALSE, db |-> table]

\* dynamodb_utils.get_image_metadata: None | Some(item)
get_image_metadata(table, image_id, ok) ==
    IF ok /\ table[image_id] # None
    THEN Some(FromDynamo(Val(table[image_id])))
    ELSE None

\* delete_image_metadata that reports success without deleting the item
delete_image_metadata_Noop(table, image_id, ok) ==
    [ret |-> TRUE, db |-> table]

\* delete_image_metadata that marks the item deleted instead of removing it
delete_image_metadata_SoftDelete(table, image_id, ok) ==
    IF ok
    THEN [ret |-> TRUE,
          db |-> IF table[image_id] = None THEN table
                 ELSE [table EXCEPT ![image_id] =
                          Some([Val(@) EXCEPT !.description = "deleted"])]]
    ELSE [ret |-> FALSE, db |-> table]

\* dynamodb_utils.delete_image_metadata: [ret, db]
delete_image_metadata(table, image_id, ok) ==
    IF ok
    THEN [ret |-> TRUE, db |-> [table EXCEPT ![image_id] = None]]
    ELSE [ret |-> FALSE, db |-> table]

\* json.dumps: raises TypeError on a Decimal unless default=decimal_default
\* turns it into an int.
HasDecimal(metadata) == metadata.size.t = "Decimal"

decimal_default(metadata) ==
    IF HasDecimal(metadata)
    THEN [metadata EXCEPT !.size = PyInt(@.v)]
    ELSE metadata

\* ------------------------------------------------------- upload handler
EmptyBody == Body(None, None, None, None, None, None)

\* Metadata that indexes the last tag instead of the first
Metadata_LastTag(image_id, body, content_type, image_data, upload_date) ==
    LET tags == DictGet(body.tags, <<>>)
    IN  [image_id |-> image_id,
         user_id |-> Val(body.user_id),
         title |-> DictGet(body.title, ""),
         description |-> DictGet(body.description, ""),
         tags |-> tags,
         upload_date |-> upload_date,
         content_type |-> content_type,
         size |-> PyInt(Len(image_data)),
         tag |-> IF tags # <<>> THEN Some(tags[Len(tags)]) ELSE None]

\* Metadata whose size is the length of the base64 text
Metadata_EncodedSize(image_id, body, content_type, image_data, upload_date) ==
    LET tags == DictGet(body.tags, <<>>)
    IN  [image_id |-> image_id,
         user_id |-> Val(body.user_id),
         title |-> DictGet(body.title, ""),
         description |-> DictGet(body.description, ""),
         tags |-> tags,
         upload_date |-> upload_date,
         content_type |-> content_type,
         size |-> PyInt(Len(Val(body.image))),
         tag |-> IF tags # <<>> THEN Some(tags[1]) ELSE None]

\* The metadata dict upload assembles (upload_image.py, "Prepare metadata").
Metadata(image_id, body, content_type, image_data, upload_date) ==
    LET tags == DictGet(body.tags, <<>>)
    IN  [image_id |-> image_id,
         user_id |-> Val(body.user_id),
         title |-> DictGet(body.title, ""),
         description |-> DictGet(body.description, ""),
         tags |-> tags,
         upload_date |-> upload_date,
         content_type |-> content_type,
         size |-> PyInt(Len(image_data)),
         tag |-> IF tags # <<>> THEN Some(tags[1]) ELSE None]

\* json.loads on the string bodies: [ok, value]; ok = FALSE is JSONDecodeError,
\* "null" parses to None.
json_loads(text) == [ok |-> text = "null", value |-> None]

\* UploadStart without the user_id check
UploadStart_NoOwnerCheck(p, ev) ==
    LET body == IF IsStr(ev.body) THEN EmptyBody ELSE DictGet(ev.body, EmptyBody)
        start == [Idle EXCEPT !.handler = "upload", !.event = ev]
        decoded == b64decode(Val(body.image))
    IN  /\ Free(p)
        /\ UNCHANGED <<s3, db, clock, intact, del200, partial>>
        /\ IF IsStr(ev.body)
              /\ (~json_loads(ev.body[2]).ok \/ json_loads(ev.body[2]).value = None) THEN
               /\ inv' = [inv EXCEPT ![p] =
                              Respond(start, ErrorResp(500, "Internal server error"))]
               /\ UNCHANGED nextId
           ELSE IF body.image = None THEN
               /\ inv' = [inv EXCEPT ![p] =
                              Respond(start, ErrorResp(400, "Image data is required"))]
               /\ UNCHANGED nextId
           ELSE
               /\ nextId < MaxUploads
               /\ nextId' = nextId + 1
               /\ IF ~decoded.ok THEN
                      inv' = [inv EXCEPT ![p] =
                          Respond([start EXCEPT !.image_id = nextId + 1],
                                  ErrorResp(400, "Invalid base64 image data"))]
                  ELSE
                      inv' = [inv EXCEPT ![p] =
                          [start EXCEPT !.pc = "s3_put",
                                        !.image_id = nextId + 1,
                                        !.image_data = decoded.bytes,
                                        !.content_type =
                                            DictGet(body.content_type, "image/jpeg")]]

\* Parse, validate, generate the id, decode.  A malformed string body raises
\* in json.loads and a null body raises in `'image' not in body`; the
\* handler's `except Exception` answers both.
UploadStart(p, ev) ==
    LET body == IF IsStr(ev.body) THEN EmptyBody ELSE DictGet(ev.body, EmptyBody)
        start == [Idle EXCEPT !.handler = "upload", !.event = ev]
        decoded == b64decode(Val(body.image))
    IN  /\ Free(p)
        /\ UNCHANGED <<s3, db, clock, intact, del200, partial>>
        /\ IF IsStr(ev.body)
              /\ (~json_loads(ev.body[2]).ok \/ json_loads(ev.body[2]).value = None) THEN
               /\ inv' = [inv EXCEPT ![p] =
                              Respond(start, ErrorResp(500, "Internal server error"))]
               /\ UNCHANGED nextId
           ELSE IF body.image = None THEN
               /\ inv' = [inv EXCEPT ![p] =
                              Respond(start, ErrorResp(400, "Image data is required"))]
               /\ UNCHANGED nextId
           ELSE IF body.user_id = None THEN
               /\ inv' = [inv EXCEPT ![p] =
                              Respond(start, ErrorResp(400, "user_id is required"))]
               /\ UNCHANGED nextId
           ELSE
               /\ nextId < MaxUploads
               /\ nextId' = nextId + 1
               /\ IF ~decoded.ok THEN
                      inv' = [inv EXCEPT ![p] =
                          Respond([start EXCEPT !.image_id = nextId + 1],
                                  ErrorResp(400, "Invalid base64 image data"))]
                  ELSE
                      inv' = [inv EXCEPT ![p] =
                          [start EXCEPT !.pc = "s3_put",
                                        !.image_id = nextId + 1,
                                        !.image_data = decoded.bytes,
                                        !.content_type =
                                            DictGet(body.content_type, "image/jpeg")]]

\* The upload step that writes the record where the blob should be written
\* first
UploadS3Put_RecordFirst(p, ok) ==
    LET me == Call(inv[p], "s3_put", ok)
        body == DictGet(me.event.body, EmptyBody)
        metadata == Metadata(me.image_id, body, me.content_type, me.image_data, clock)
        r == save_image_metadata(db, metadata, ok)
    IN  /\ inv[p].handler = "upload" /\ inv[p].pc = "s3_put"
        /\ db' = r.db
        /\ UNCHANGED <<s3, nextId, intact, del200, partial>>
        /\ IF ~r.ret THEN
               /\ inv' = [inv EXCEPT ![p] =
                              Respond(me, ErrorResp(500, "Failed to save metadata"))]
               /\ UNCHANGED clock
           ELSE
               /\ inv' = [inv EXCEPT ![p] =
                              [me EXCEPT !.pc = "db_put", !.metadata = Some(metadata)]]
               /\ clock' = clock + 1

\* Upload image to S3, then prepare the metadata.
UploadS3Put(p, ok) ==
    LET me == Call(inv[p], "s3_put", ok)
        r == upload_image(s3, me.image_id, me.image_data, me.content_type, ok)
        body == DictGet(me.event.body, EmptyBody)
    IN  /\ inv[p].handler = "upload" /\ inv[p].pc = "s3_put"
        /\ s3' = r.s3
        /\ UNCHANGED <<db, nextId, intact, del200, partial>>
        /\ IF ~r.ret THEN
               /\ inv' = [inv EXCEPT ![p] =
                              Respond(me, ErrorResp(500, "Failed to upload image to S3"))]
               /\ UNCHANGED clock
           ELSE
               /\ inv' = [inv EXCEPT ![p] =
                              [me EXCEPT !.pc = "db_put",
                                         !.metadata = Some(Metadata(me.image_id, body,
                                              me.content_type, me.image_data, clock))]]
               /\ clock' = clock + 1

\* Save metadata to DynamoDB and answer.
UploadDbPut(p, ok) ==
    LET me == Call(inv[p], "db_put", ok)
        r == save_image_metadata(db, Val(me.metadata), ok)
    IN  /\ inv[p].handler = "upload" /\ inv[p].pc = "db_put"
        /\ db' = r.db
        /\ UNCHANGED <<s3, nextId, clock, del200, partial>>
        /\ IF ~r.ret THEN
               /\ inv' = [inv EXCEPT ![p] =
                              Respond(me, ErrorResp(500, "Failed to save metadata"))]
               /\ UNCHANGED intact
           ELSE
               /\ inv' = [inv EXCEPT ![p] =
                              Respond(me, [NoResp EXCEPT
                                  !.statusCode = 201,
                                  !.message = "Image uploaded successfully",
                                  !.image_id = me.image_id,
                                  !.metadata = me.metadata])]
               /\ intact' = [intact EXCEPT ![me.image_id] =
                                   DictGet(me.event.body, EmptyBody).image]

\* ------------------------------------------------------- delete handler
\* `not path_params or 'image_id' not in path_params`
NoImageId(ev) ==
    \/ ev.pathParameters = None
    \/ Val(ev.pathParameters).image_id = None

PathImageId(ev) == Val(Val(ev.pathParameters).image_id)

\* A get or delete invocation past its path check, about to look the record up.
Lookup(handler, ev) ==
    [Idle EXCEPT !.handler = handler, !.event = ev, !.pc = "db_get",
                 !.image_id = PathImageId(ev),
                 !.afterDel = PathImageId(ev) \in del200,
                 !.afterUp = intact[PathImageId(ev)] # None]

DeleteStart(p, ev) ==
    /\ Free(p)
    /\ UNCHANGED <<s3, db, nextId, clock, intact, del200, partial>>
    /\ IF NoImageId(ev)
       THEN inv' = [inv EXCEPT ![p] =
                Respond([Idle EXCEPT !.handler = "delete", !.event = ev],
                        ErrorResp(400, "image_id is required"))]
       ELSE inv' = [inv EXCEPT ![p] = Lookup("delete", ev)]

\* The lookup without the existence check: always goes on to delete.
DeleteDbGet_NoCheck(p, ok) ==
    /\ inv[p].handler = "delete" /\ inv[p].pc = "db_get"
    /\ UNCHANGED <<s3, db, nextId, clock, intact, del200, partial>>
    /\ inv' = [inv EXCEPT ![p] = [Call(inv[p], "db_get", ok) EXCEPT !.pc = "s3_delete"]]

\* Check if image exists.
DeleteDbGet(p, ok) ==
    LET me == Call(inv[p], "db_get", ok)
        metadata == get_image_metadata(db, me.image_id, ok)
    IN  /\ inv[p].handler = "delete" /\ inv[p].pc = "db_get"
        /\ UNCHANGED <<s3, db, nextId, clock, intact, del200, partial>>
        /\ IF metadata = None
           THEN inv' = [inv EXCEPT ![p] = Respond(me, ErrorResp(404, "Image not found"))]
           ELSE inv' = [inv EXCEPT ![p] = [me EXCEPT !.pc = "s3_delete"]]

\* The S3 delete that gives up with 500 as soon as it fails.
DeleteS3_StopOnFailure(p, ok) ==
    LET me == Call(inv[p], "s3_delete", ok)
        r == s3_delete_image(s3, me.image_id, ok)
    IN  /\ inv[p].handler = "delete" /\ inv[p].pc = "s3_delete"
        /\ s3' = r.s3
        /\ inv' = [inv EXCEPT ![p] =
               IF r.ret THEN [me EXCEPT !.pc = "db_delete", !.s3_deleted = r.ret]
               ELSE Respond(me, ErrorResp(500, "Failed to delete image completely"))]
        /\ intact' = IF r.ret THEN [intact EXCEPT ![me.image_id] = None] ELSE intact
        /\ UNCHANGED <<db, nextId, clock, del200, partial>>

\* The S3 delete whose adapter lets the backend exception through: the
\* handler's except branch answers
DeleteS3_Raises(p, ok) ==
    LET me == Call(inv[p], "s3_delete", ok)
        r == s3_delete_image(s3, me.image_id, ok)
    IN  /\ inv[p].handler = "delete" /\ inv[p].pc = "s3_delete"
        /\ s3' = r.s3
        /\ inv' = [inv EXCEPT ![p] =
               IF ok THEN [me EXCEPT !.pc = "db_delete", !.s3_deleted = r.ret]
               ELSE Respond(me, ErrorResp(500, "Internal server error"))]
        /\ intact' = IF r.ret THEN [intact EXCEPT ![me.image_id] = None] ELSE intact
        /\ UNCHANGED <<db, nextId, clock, del200, partial>>

\* Delete from S3.
DeleteS3(p, ok) ==
    LET me == Call(inv[p], "s3_delete", ok)
        r == s3_delete_image(s3, me.image_id, ok)
    IN  /\ inv[p].handler = "delete" /\ inv[p].pc = "s3_delete"
        /\ s3' = r.s3
        /\ inv' = [inv EXCEPT ![p] = [me EXCEPT !.pc = "db_delete", !.s3_deleted = r.ret]]
        /\ intact' = IF r.ret THEN [intact EXCEPT ![me.image_id] = None] ELSE intact
        /\ UNCHANGED <<db, nextId, clock, del200, partial>>

\* DeleteDb that answers 200 as soon as one of the two deletes succeeded
DeleteDb_EitherSucceeded(p, ok) ==
    LET me == Call(inv[p], "db_delete", ok)
        r == delete_image_metadata(db, me.image_id, ok)
        s3_deleted == me.s3_deleted
        db_deleted == r.ret
    IN  /\ inv[p].handler = "delete" /\ inv[p].pc = "db_delete"
        /\ db' = r.db
        /\ intact' = IF r.ret THEN [intact EXCEPT ![me.image_id] = None] ELSE intact
        /\ UNCHANGED <<s3, nextId, clock>>
        /\ IF ~s3_deleted /\ ~db_deleted THEN
               /\ inv' = [inv EXCEPT ![p] =
                      Respond(me, [ErrorResp(500, "Failed to delete image completely")
                                   EXCEPT !.s3_deleted = Some(s3_deleted),
                                          !.metadata_deleted = Some(db_deleted)])]
               /\ del200' = del200
               /\ partial' = IF s3_deleted THEN partial \cup {me.image_id} ELSE partial
           ELSE
               /\ inv' = [inv EXCEPT ![p] =
                      Respond(me, [NoResp EXCEPT !.statusCode = 200,
                                                 !.message = "Image deleted successfully",
                                                 !.image_id = me.image_id])]
               /\ del200' = del200 \cup {me.image_id}
               /\ partial' = partial

\* Delete metadata from DynamoDB and answer.
DeleteDb(p, ok) ==
    LET me == Call(inv[p], "db_delete", ok)
        r == delete_image_metadata(db, me.image_id, ok)
        s3_deleted == me.s3_deleted
        db_deleted == r.ret
    IN  /\ inv[p].handler = "delete" /\ inv[p].pc = "db_delete"
        /\ db' = r.db
        /\ intact' = IF r.ret THEN [intact EXCEPT ![me.image_id] = None] ELSE intact
        /\ UNCHANGED <<s3, nextId, clock>>
        /\ IF ~s3_deleted \/ ~db_deleted THEN
               /\ inv' = [inv EXCEPT ![p] =
                      Respond(me, [ErrorResp(500, "Failed to delete image completely")
                                   EXCEPT !.s3_deleted = Some(s3_deleted),
                                          !.metadata_deleted = Some(db_deleted)])]
               /\ del200' = del200
               /\ partial' = IF s3_deleted THEN partial \cup {me.image_id} ELSE partial
           ELSE
               /\ inv' = [inv EXCEPT ![p] =
                      Respond(me, [NoResp EXCEPT !.statusCode = 200,
                                                 !.message = "Image deleted successfully",
                                                 !.image_id = me.image_id])]
               /\ del200' = del200 \cup {me.image_id}
               /\ partial' = partial

\* ---------------------------------------------------------- get handler
\* Flag whose default is 'true': an absent flag counts as set
Flag_DefaultTrue(ev, name) ==
    LET q == ev.queryStringParameters
    IN  IF q = None THEN TRUE
        ELSE Lower(DictGet(IF name = "url" THEN Val(q).url ELSE Val(q).download, "true"))
             = "true"

\* query_params.get(flag, '').lower() == 'true'
Flag(ev, name) ==
    LET q == ev.queryStringParameters
    IN  IF q = None THEN FALSE
        ELSE Lower(DictGet(IF name = "url" THEN Val(q).url ELSE Val(q).download, ""))
             = "true"

\* GetStart without the path check: a missing image_id is looked up as None
GetStart_NoPathCheck(p, ev) ==
    /\ Free(p)
    /\ UNCHANGED <<s3, db, nextId, clock, intact, del200, partial>>
    /\ IF NoImageId(ev)
       THEN inv' = [inv EXCEPT ![p] =
                Respond(Call([Idle EXCEPT !.handler = "get", !.event = ev], "db_get", FALSE),
                        ErrorResp(404, "Image not found"))]
       ELSE inv' = [inv EXCEPT ![p] = Lookup("get", ev)]

GetStart(p, ev) ==
    /\ Free(p)
    /\ UNCHANGED <<s3, db, nextId, clock, intact, del200, partial>>
    /\ IF NoImageId(ev)
       THEN inv' = [inv EXCEPT ![p] =
                Respond([Idle EXCEPT !.handler = "get", !.event = ev],
                        ErrorResp(400, "image_id is required"))]
       ELSE inv' = [inv EXCEPT ![p] = Lookup("get", ev)]

\* Get metadata first; without flags, answer with it.
GetDbGet(p, ok) ==
    LET me == Call(inv[p], "db_get", ok)
        metadata == get_image_metadata(db, me.image_id, ok)
    IN  /\ inv[p].handler = "get" /\ inv[p].pc = "db_get"
        /\ UNCHANGED <<s3, db, nextId, clock, intact, del200, partial>>
        /\ IF metadata = None THEN
               inv' = [inv EXCEPT ![p] = Respond(me, ErrorResp(404, "Image not found"))]
           ELSE IF Flag(me.event, "url") THEN
               inv' = [inv EXCEPT ![p] = [me EXCEPT !.pc = "sign_url", !.metadata = metadata]]
           ELSE IF Flag(me.event, "download") THEN
               inv' = [inv EXCEPT ![p] = [me EXCEPT !.pc = "s3_get", !.metadata = metadata]]
           ELSE
               inv' = [inv EXCEPT ![p] =
                      Respond(me, [NoResp EXCEPT
                          !.statusCode = 200,
                          !.image_id = me.image_id,
                          !.metadata = Some(decimal_default(Val(metadata)))])]

\* Presigned URL.
GetSignUrl(p, ok) ==
    LET me == Call(inv[p], "sign_url", ok)
        presigned_url == get_image_url(me.image_id, 3600, ok)
    IN  /\ inv[p].handler = "get" /\ inv[p].pc = "sign_url"
        /\ UNCHANGED <<s3, db, nextId, clock, intact, del200, partial>>
        /\ IF presigned_url = None
           THEN inv' = [inv EXCEPT ![p] =
                    Respond(me, ErrorResp(500, "Failed to generate presigned URL"))]
           ELSE inv' = [inv EXCEPT ![p] =
                    Respond(me, [NoResp EXCEPT
                        !.statusCode = 200,
                        !.image_id = me.image_id,
                        !.url = presigned_url,
                        !.metadata = Some(decimal_default(Val(me.metadata)))])]

\* `not image_data`: None and b'' are both falsy.
NotBytes(o) == o = None \/ Val(o) = <<>>

\* The download that removes the record of an image whose blob it cannot read
GetS3Get_DropsRecord(p, ok) ==
    LET me == Call(inv[p], "s3_get", ok)
        image_data == download_image(s3, me.image_id, ok)
    IN  /\ inv[p].handler = "get" /\ inv[p].pc = "s3_get"
        /\ UNCHANGED <<s3, nextId, clock, intact, del200, partial>>
        /\ db' = IF NotBytes(image_data) THEN [db EXCEPT ![me.image_id] = None] ELSE db
        /\ IF NotBytes(image_data)
           THEN inv' = [inv EXCEPT ![p] =
                    Respond(me, ErrorResp(404, "Image data not found"))]
           ELSE inv' = [inv EXCEPT ![p] =
                    Respond(me, [NoResp EXCEPT
                        !.statusCode = 200,
                        !.image_id = me.image_id,
                        !.image_data = Some(b64encode(Val(image_data))),
                        !.content_type = Some(Val(me.metadata).content_type),
                        !.metadata = Some(decimal_default(Val(me.metadata)))])]

\* Download.
GetS3Get(p, ok) ==
    LET me == Call(inv[p], "s3_get", ok)
        image_data == download_image(s3, me.image_id, ok)
    IN  /\ inv[p].handler = "get" /\ inv[p].pc = "s3_get"
        /\ UNCHANGED <<s3, db, nextId, clock, intact, del200, partial>>
        /\ IF NotBytes(image_data)
           THEN inv' = [inv EXCEPT ![p] =
                    Respond(me, ErrorResp(404, "Image data not found"))]
           ELSE inv' = [inv EXCEPT ![p] =
                    Respond(me, [NoResp EXCEPT
                        !.statusCode = 200,
                        !.image_id = me.image_id,
                        !.image_data = Some(b64encode(Val(image_data))),
                        !.content_type = Some(Val(me.metadata).content_type),
                        !.metadata = Some(decimal_default(Val(me.metadata)))])]

\* --------------------------------------------------------- list handler
\* The orders in which the items of S can come back: any order for a scan,
\* descending upload_date (ScanIndexForward=False) for an index query.
Orders(S, sorted) ==
    { s \in [1..Cardinality(S) -> S] :
        /\ \A i, j \in 1..Cardinality(S) : i # j => s[i] # s[j]
        /\ sorted => \A i, j \in 1..Cardinality(S) :
                        i < j => s[i].upload_date >= s[j].upload_date }

Items(table) == { FromDynamo(Val(table[i])) : i \in { j \in DOMAIN table : table[j] # None } }

\* list_images that filters by owner without the index: no order
list_images_OwnerScan(table, filters, ok) ==
    IF ~ok THEN { <<>> }
    ELSE IF filters # None /\ Val(filters).user_id # None THEN
        Orders({ it \in Items(table) : it.user_id = Val(Val(filters).user_id) }, FALSE)
    ELSE IF filters # None /\ Val(filters).tag # None THEN
        Orders({ it \in Items(table) : it.tag = Val(filters).tag }, TRUE)
    ELSE Orders(Items(table), FALSE)

\* dynamodb_utils.list_images: the set of lists it can return
list_images(table, filters, ok) ==
    IF ~ok THEN { <<>> }
    ELSE IF filters # None /\ Val(filters).user_id # None THEN
        Orders({ it \in Items(table) : it.user_id = Val(Val(filters).user_id) }, TRUE)
    ELSE IF filters # None /\ Val(filters).tag # None THEN
        Orders({ it \in Items(table) : it.tag = Val(filters).tag }, TRUE)
    ELSE Orders(Items(table), FALSE)

\* Filters that checks tag before user_id
Filters_TagFirst(ev) ==
    LET q == ev.queryStringParameters
    IN  IF q = None THEN None
        ELSE IF Val(q).tag # None THEN Some([user_id |-> None, tag |-> Val(q).tag])
        ELSE IF Val(q).user_id # None THEN Some([user_id |-> Val(q).user_id, tag |-> None])
        ELSE None

\* Build filters: user_id first, else tag; an empty dict is passed as None.
Filters(ev) ==
    LET q == ev.queryStringParameters
    IN  IF q = None THEN None
        ELSE IF Val(q).user_id # None THEN Some([user_id |-> Val(q).user_id, tag |-> None])
        ELSE IF Val(q).tag # None THEN Some([user_id |-> None, tag |-> Val(q).tag])
        ELSE None

ListStart(p, ev) ==
    /\ Free(p)
    /\ inv' = [inv EXCEPT ![p] = [Idle EXCEPT !.handler = "list", !.event = ev,
                                               !.pc = "query", !.filters = Filters(ev)]]
    /\ UNCHANGED <<s3, db, nextId, clock, intact, del200, partial>>

\* An exception leaves lambda_handler: the invocation ends without a response.
Raise(rec) == [rec EXCEPT !.pc = "raised"]

\* ListQuery without the handler's try/except: the TypeError of json.dumps
\* propagates
ListQuery_NoExcept(p, ok) ==
    LET me == Call(inv[p], "query", ok)
    IN  /\ inv[p].handler = "list" /\ inv[p].pc = "query"
        /\ UNCHANGED <<s3, db, nextId, clock, intact, del200, partial>>
        /\ \E images \in list_images(db, me.filters, ok) :
            IF \E k \in 1..Len(images) : HasDecimal(images[k])
            THEN inv' = [inv EXCEPT ![p] = Raise([me EXCEPT !.images = images])]
            ELSE inv' = [inv EXCEPT ![p] =
                     Respond([me EXCEPT !.images = images],
                             [NoResp EXCEPT !.statusCode = 200,
                                            !.count = Some(Len(images)),
                                            !.images = images])]

\* Get images from DynamoDB and answer; json.dumps has no default here.
ListQuery(p, ok) ==
    LET me == Call(inv[p], "query", ok)
    IN  /\ inv[p].handler = "list" /\ inv[p].pc = "query"
        /\ UNCHANGED <<s3, db, nextId, clock, intact, del200, partial>>
        /\ \E images \in list_images(db, me.filters, ok) :
            IF \E k \in 1..Len(images) : HasDecimal(images[k])
            THEN inv' = [inv EXCEPT ![p] =
                     Respond([me EXCEPT !.images = images],
                             ErrorResp(500, "Internal server error"))]
            ELSE inv' = [inv EXCEPT ![p] =
                     Respond([me EXCEPT !.images = images],
                             [NoResp EXCEPT !.statusCode = 200,
                                            !.count = Some(Len(images)),
                                            !.images = images])]

\* ------------------------------------------------------- specification
\* One client: invocations follow one another, each advancing call by call.
Client == {"p1"}

Next ==
    \/ \E p \in Client, ev \in UploadEvents : UploadStart(p, ev)
    \/ \E p \in Client, ok \in BOOLEAN : UploadS3Put(p, ok)
    \/ \E p \in Client, ok \in BOOLEAN : UploadDbPut(p, ok)
    \/ \E p \in Client, ev \in DeleteEvents : DeleteStart(p, ev)
    \/ \E p \in Client, ok \in BOOLEAN : DeleteDbGet(p, ok)
    \/ \E p \in Client, ok \in BOOLEAN : DeleteS3(p, ok)
    \/ \E p \in Client, ok \in BOOLEAN : DeleteDb(p, ok)
    \/ \E p \in Client, ev \in GetEvents : GetStart(p, ev)
    \/ \E p \in Client, ok \in BOOLEAN : GetDbGet(p, ok)
    \/ \E p \in Client, ok \in BOOLEAN : GetSignUrl(p, ok)
    \/ \E p \in Client, ok \in BOOLEAN : GetS3Get(p, ok)
    \/ \E p \in Client, ev \in ListEvents : ListStart(p, ev)
    \/ \E p \in Client, ok \in BOOLEAN : ListQuery(p, ok)

Spec == Init /\ [][Next]_vars

\* ------------------------------------------------ concurrent invocations
\* The handlers keep no state of their own, so invocations running at the
\* same time interleave at their adapter calls.  Two slots, and requests that
\* all concern the images of RaceIds uploads.
RaceIds == 1

RaceUploadEvents ==
    { Event(Some(Body(Some(b64encode(<<72, 105>>)), Some("u1"), None, None, None, None)),
            None, None) }

RaceGetEvents ==
    { Event(None, Some([image_id |-> Some(i)]), Some(Query(None, Some("true"), None, None))) :
        i \in 1..RaceIds }

RaceDeleteEvents == { Event(None, Some([image_id |-> Some(i)]), None) : i \in 1..RaceIds }

\* Uploads, downloads and deletes in both slots.
RaceNext ==
    \/ \E p \in Procs, ev \in RaceUploadEvents : nextId < RaceIds /\ UploadStart(p, ev)
    \/ \E p \in Procs, ok \in BOOLEAN : UploadS3Put(p, ok)
    \/ \E p \in Procs, ok \in BOOLEAN : UploadDbPut(p, ok)
    \/ \E p \in Procs, ev \in RaceDeleteEvents : DeleteStart(p, ev)
    \/ \E p \in Procs, ok \in BOOLEAN : DeleteDbGet(p, ok)
    \/ \E p \in Procs, ok \in BOOLEAN : DeleteS3(p, ok)
    \/ \E p \in Procs, ok \in BOOLEAN : DeleteDb(p, ok)
    \/ \E p \in Procs, ev \in RaceGetEvents : GetStart(p, ev)
    \/ \E p \in Procs, ok \in BOOLEAN : GetDbGet(p, ok)
    \/ \E p \in Procs, ok \in BOOLEAN : GetS3Get(p, ok)

RaceSpec == Init /\ [][RaceNext]_vars

\* Uploads with readers and no delete: gets and lists run beside the uploads.
ReadEvents ==
    { Event(None, Some([image_id |-> Some(i)]), q) :
        i \in 1..RaceIds, q \in {None, Some(Query(None, Some("true"), None, None))} }

ReadersNext ==
    \/ \E p \in Procs, ev \in RaceUploadEvents : nextId < RaceIds /\ UploadStart(p, ev)
    \/ \E p \in Procs, ok \in BOOLEAN : UploadS3Put(p, ok)
    \/ \E p \in Procs, ok \in BOOLEAN : UploadDbPut(p, ok)
    \/ \E p \in Procs, ev \in ReadEvents : GetStart(p, ev)
    \/ \E p \in Procs, ok \in BOOLEAN : GetDbGet(p, ok)
    \/ \E p \in Procs, ok \in BOOLEAN : GetS3Get(p, ok)
    \/ \E p \in Procs : ListStart(p, Event(None, None, None))
    \/ \E p \in Procs, ok \in BOOLEAN : ListQuery(p, ok)

ReadersSpec == Init /\ [][ReadersNext]_vars

\* ---------------------------------------------------------- properties
Done(p, handler) == inv[p].pc = "done" /\ inv[p].handler = handler

\* The image text of the upload request in slot p.
SentImage(p) == Val(Val(inv[p].event.body).image)

\* C1: an upload whose object-store put succeeded and whose record-store put
\* failed has returned 500 'Failed to save metadata' after exactly those two
\* calls (no compensating delete), and leaves the decoded blob stored under
\* the generated image_id with no record for it.
C1_OrphanOnMetadataFailure ==
    \A p \in Procs :
        (inv[p].handler = "upload" /\ inv[p].faults = <<FALSE, TRUE>>) =>
            /\ inv[p].pc = "done"
            /\ inv[p].resp = ErrorResp(500, "Failed to save metadata")
            /\ inv[p].calls = <<"s3_put", "db_put">>
            /\ s3[inv[p].image_id] # None
            /\ Val(s3[inv[p].image_id]).Body = b64decode(SentImage(p)).bytes
            /\ db[inv[p].image_id] = None

C1_Witness ==
    \E p \in Procs :
        /\ Done(p, "upload")
        /\ inv[p].faults = <<FALSE, TRUE>>
        /\ inv[p].resp.statusCode = 500

\* C2: the step in which an upload's object-store put fails ends the
\* invocation with 500 'Failed to upload image to S3' after that single
\* call (the record-store put is never called) and changes neither store.
C2_S3FailureStopsUpload ==
    [][\A p \in Procs :
          (inv[p].handler = "upload" /\ inv[p].pc = "s3_put"
             /\ inv'[p].faults = <<TRUE>>) =>
              /\ inv'[p].pc = "done"
              /\ inv'[p].resp = ErrorResp(500, "Failed to upload image to S3")
              /\ inv'[p].calls = <<"s3_put">>
              /\ s3' = s3
              /\ db' = db]_vars

C2_Witness ==
    \E p \in Procs :
        /\ Done(p, "upload")
        /\ inv[p].faults = <<TRUE>>
        /\ inv[p].resp.statusCode = 500
        /\ s3[inv[p].image_id] = None

\* C3 (as claimed): for every blob B, a download of an image whose upload of
\* base64(B) returned 201, with nothing deleted in between and no backend
\* failure, returns 200 with image_data decoding to exactly B.
C3_RoundTrip ==
    \A p \in Procs : \A B \in Blobs :
        (/\ Done(p, "get")
         /\ inv[p].calls = <<"db_get", "s3_get">>
         /\ inv[p].faults = <<FALSE, FALSE>>
         /\ inv[p].afterUp
         /\ intact[inv[p].image_id] = Some(b64encode(B))) =>
            /\ inv[p].resp.statusCode = 200
            /\ inv[p].resp.image_data # None
            /\ b64decode(Val(inv[p].resp.image_data)) = [ok |-> TRUE, bytes |-> B]

\* C4: a delete invocation past its existence check calls the object-store
\* delete and then the record-store delete, once each, whatever either
\* returned; it ends only after both.
C4_BothDeletesAttempted ==
    \A p \in Procs :
        inv[p].handler = "delete" =>
            /\ inv[p].pc = "s3_delete" => inv[p].calls = <<"db_get">>
            /\ inv[p].pc = "db_delete" => inv[p].calls = <<"db_get", "s3_delete">>
            /\ (inv[p].pc = "done" /\ inv[p].resp.statusCode \notin {400, 404}) =>
                   /\ inv[p].calls = <<"db_get", "s3_delete", "db_delete">>
                   /\ inv[p].resp.statusCode \in {200, 500}
            /\ (inv[p].pc = "done" /\ Len(inv[p].calls) > 1) =>
                   inv[p].calls = <<"db_get", "s3_delete", "db_delete">>

\* The object-store delete failed and the record-store delete was still made.
C4_Witness ==
    \E p \in Procs :
        /\ Done(p, "delete")
        /\ inv[p].faults = <<FALSE, TRUE, FALSE>>
        /\ inv[p].calls = <<"db_get", "s3_delete", "db_delete">>
        /\ db[inv[p].image_id] = None

\* Exactly one of the two delete calls of the finished delete in slot p failed.
OneDeleteFailed(p) ==
    /\ Done(p, "delete")
    /\ Len(inv[p].faults) = 3
    /\ inv[p].faults[2] # inv[p].faults[3]

\* What the response must report in that case.
ReportsBoth(p) ==
    /\ inv[p].resp.statusCode = 500
    /\ inv[p].resp.s3_deleted = Some(~inv[p].faults[2])
    /\ inv[p].resp.metadata_deleted = Some(~inv[p].faults[3])

\* C5 (as claimed): when exactly one delete call fails, the response is 500
\* with both booleans as the adapters returned them, the half reported
\* deleted is absent and the half reported not deleted is still present.
C5_PartialDeleteAsClaimed ==
    \A p \in Procs :
        OneDeleteFailed(p) =>
            /\ ReportsBoth(p)
            /\ IF inv[p].faults[2]
               THEN s3[inv[p].image_id] # None /\ db[inv[p].image_id] = None
               ELSE s3[inv[p].image_id] = None /\ db[inv[p].image_id] # None

\* C5 (amended): as above, except that a blob reported not deleted is still
\* present only if an earlier partial delete had not already removed it; the
\* failed half is left as it was.
C5_PartialDelete ==
    \A p \in Procs :
        OneDeleteFailed(p) =>
            /\ ReportsBoth(p)
            /\ IF inv[p].faults[2]
               THEN /\ s3[inv[p].image_id] # None \/ inv[p].image_id \in partial
                    /\ db[inv[p].image_id] = None
               ELSE s3[inv[p].image_id] = None /\ db[inv[p].image_id] # None

\* The blob delete failed, the record delete succeeded, the blob survives.
C5_Witness ==
    \E p \in Procs :
        /\ OneDeleteFailed(p)
        /\ inv[p].faults[2]
        /\ s3[inv[p].image_id] # None
        /\ db[inv[p].image_id] = None

\* C6: a get (with any flags) or a delete that starts after a delete of the
\* same image_id returned 200 makes the record lookup only and returns 404
\* 'Image not found'.
C6_GoneAfterDelete ==
    \A p \in Procs :
        (inv[p].handler \in {"get", "delete"} /\ inv[p].afterDel) =>
            /\ inv[p].pc \in {"db_get", "done"}
            /\ inv[p].pc = "done" =>
                   /\ inv[p].resp = ErrorResp(404, "Image not found")
                   /\ inv[p].calls = <<"db_get">>

\* A download request after a 200 delete, answered 404 with a working backend.
C6_Witness ==
    \E p \in Procs :
        /\ Done(p, "get")
        /\ inv[p].afterDel
        /\ Flag(inv[p].event, "download")
        /\ inv[p].faults = <<FALSE>>
        /\ inv[p].resp.statusCode = 404

NoDeleteInProgress ==
    \A p \in Procs : inv[p].handler = "delete" => inv[p].pc \in {"idle", "done"}

\* C7 (as claimed): whenever no delete is in progress, every record in the
\* record store has a blob under the same image_id.
C7_RecordHasBlobAsClaimed ==
    NoDeleteInProgress =>
        \A i \in ImageIds : db[i] # None => s3[i] # None

\* C7 (amended): whenever no delete is in progress, every record has a blob
\* under the same image_id, unless a delete of that image_id ended with its
\* blob deleted and its record delete failed.
C7_RecordHasBlob ==
    NoDeleteInProgress =>
        \A i \in ImageIds : (db[i] # None /\ i \notin partial) => s3[i] # None

\* A delete has ended with both of its delete calls failed: record and blob
\* are both still there.
C7_Witness ==
    \E p \in Procs :
        /\ Done(p, "delete")
        /\ inv[p].faults = <<FALSE, TRUE, TRUE>>
        /\ db[inv[p].image_id] # None
        /\ s3[inv[p].image_id] # None

\* C8: the step in which a delete's record lookup returns no record (the
\* record is absent, or the lookup failed) ends the invocation with 404
\* 'Image not found' after that single call and changes neither store.
C8_DeleteMissingIsNoop ==
    [][\A p \in Procs :
          (/\ inv[p].handler = "delete" /\ inv[p].pc = "db_get"
           /\ inv'[p] # inv[p]
           /\ (db[inv[p].image_id] = None \/ inv'[p].faults = <<TRUE>>)) =>
              /\ inv'[p].pc = "done"
              /\ inv'[p].resp = ErrorResp(404, "Image not found")
              /\ inv'[p].calls = <<"db_get">>
              /\ s3' = s3
              /\ db' = db]_vars

C8_Witness ==
    \E p \in Procs :
        /\ Done(p, "delete")
        /\ inv[p].faults = <<FALSE>>
        /\ inv[p].resp.statusCode = 404
        /\ db[inv[p].image_id] = None

\* C9 (as claimed): get and delete answer 404 'Image not found' only when
\* the record store holds no record for the image_id; a lookup that fails
\* while the record exists is answered 500.
C9_NotFoundOnlyWhenAbsent ==
    \A p \in Procs :
        (inv[p].pc = "done" /\ inv[p].handler \in {"get", "delete"}
           /\ inv[p].calls # <<>>) =>
            /\ inv[p].resp.error = "Image not found" => db[inv[p].image_id] = None
            /\ (inv[p].faults[1] /\ db[inv[p].image_id] # None) =>
                   inv[p].resp.statusCode = 500

\* C10 (as claimed): a list whose query failed answers 500 with an error
\* body; 200 with count 0 is answered only when the query succeeded and
\* matched no record.
C10_ListQueryFailure ==
    \A p \in Procs :
        Done(p, "list") =>
            /\ inv[p].faults = <<TRUE>> =>
                   inv[p].resp.statusCode = 500 /\ inv[p].resp.error # ""
            /\ (inv[p].resp.statusCode = 200 /\ inv[p].resp.count = Some(0)) =>
                   inv[p].faults = <<FALSE>>

\* The records the table holds, each as upload wrote it (size a number).
Stored == { [Val(db[i]) EXCEPT !.size = PyInt(@.v)] : i \in { j \in ImageIds : db[j] # None } }

\* The elements of a list.
Range(s) == { s[k] : k \in 1..Len(s) }

\* C11 (as claimed): with the record store working, a list without filter
\* answers 200 with every stored record, each as upload wrote it (size a
\* number), and count their number - for any number of stored records, one
\* or more included.
C11_ListAll ==
    \A p \in Procs :
        (Done(p, "list") /\ inv[p].filters = None /\ inv[p].faults = <<FALSE>>) =>
            /\ inv[p].resp.statusCode = 200
            /\ inv[p].resp.count = Some(Cardinality(Stored))
            /\ Range(inv[p].resp.images) = Stored

\* The list invocation in slot p has run its query, the backend answering.
Queried(p) == Done(p, "list") /\ inv[p].faults = <<FALSE>>

\* The list holds each of the stored records S once, as the table returns
\* them, and nothing else.
ExactlyRecords(images, S) ==
    /\ Len(images) = Cardinality(S)
    /\ { images[k].image_id : k \in 1..Len(images) } = S
    /\ \A k \in 1..Len(images) :
           /\ db[images[k].image_id] # None
           /\ images[k] = [Val(db[images[k].image_id]) EXCEPT
                               !.size = [t |-> "Decimal", v |-> @.v]]

\* Later uploads come first.
NewestFirst(images) ==
    \A i, j \in 1..Len(images) :
        i < j => images[i].upload_date >= images[j].upload_date

\* C12: the record-store query with filter {user_id: U} returns exactly the
\* stored records whose user_id is U, none missing and none of another
\* owner, ordered by upload timestamp descending.
C12_QueryByOwner ==
    \A p \in Procs :
        (Queried(p) /\ inv[p].filters # None /\ Val(inv[p].filters).user_id # None) =>
            /\ ExactlyRecords(inv[p].images,
                   { i \in ImageIds : db[i] # None
                        /\ Val(db[i]).user_id = Val(Val(inv[p].filters).user_id) })
            /\ NewestFirst(inv[p].images)

\* A query by owner u1 returned u1's two records, the later upload first.
C12_Witness ==
    \E p \in Procs :
        /\ Queried(p)
        /\ inv[p].filters = Some([user_id |-> Some("u1"), tag |-> None])
        /\ Len(inv[p].images) = 2
        /\ inv[p].images[1].upload_date > inv[p].images[2].upload_date

\* C13: only the first tag of an upload is indexed: the record-store query
\* with filter {tag: T} returns exactly the stored records whose tags list is
\* non-empty and starts with T, newest first; a record uploaded with tags
\* [a, b] is returned for a and not for b, one uploaded without tags for no
\* tag.
C13_QueryByFirstTag ==
    \A p \in Procs :
        (Queried(p) /\ inv[p].filters # None /\ Val(inv[p].filters).user_id = None
           /\ Val(inv[p].filters).tag # None) =>
            /\ ExactlyRecords(inv[p].images,
                   { i \in ImageIds : db[i] # None
                        /\ Val(db[i]).tags # <<>>
                        /\ Val(db[i]).tags[1] = Val(Val(inv[p].filters).tag) })
            /\ NewestFirst(inv[p].images)

\* With a record tagged [a, b] and a record without tags stored, the query
\* for tag a returned the first of them only.
C13_Witness ==
    \E p \in Procs, i, j \in ImageIds :
        /\ Queried(p)
        /\ inv[p].filters = Some([user_id |-> None, tag |-> Some("a")])
        /\ db[i] # None /\ Val(db[i]).tags = <<"a", "b">>
        /\ db[j] # None /\ Val(db[j]).tags = <<>>
        /\ Len(inv[p].images) = 1
        /\ inv[p].images[1].image_id = i

\* The query for tag b returned nothing while a record tagged [a, b] is stored.
C13_SecondTagNotIndexed ==
    \E p \in Procs, i \in ImageIds :
        /\ Queried(p)
        /\ inv[p].filters = Some([user_id |-> None, tag |-> Some("b")])
        /\ db[i] # None /\ Val(db[i]).tags = <<"a", "b">>
        /\ inv[p].images = <<>>

\* The query string value of key name in the list request of slot p, None when
\* queryStringParameters is absent or null or has no such key.
Asked(p, name) ==
    LET q == inv[p].event.queryStringParameters
    IN  IF q = None THEN None
        ELSE IF name = "user_id" THEN Val(q).user_id ELSE Val(q).tag

\* C14: the list handler honours exactly one filter: a request with user_id
\* (with or without tag) is queried by user_id alone; one with tag only is
\* queried by tag; one with neither key (queryStringParameters absent, null
\* or without those keys) calls the adapter with no filter, which scans the
\* whole table.
C14_OneFilter ==
    \A p \in Procs :
        (inv[p].handler = "list" /\ inv[p].pc \in {"query", "done"}) =>
            /\ Asked(p, "user_id") # None =>
                   /\ inv[p].filters = Some([user_id |-> Asked(p, "user_id"), tag |-> None])
                   /\ Queried(p) => ExactlyRecords(inv[p].images,
                          { i \in ImageIds : db[i] # None
                               /\ Val(db[i]).user_id = Val(Asked(p, "user_id")) })
            /\ (Asked(p, "user_id") = None /\ Asked(p, "tag") # None) =>
                   /\ inv[p].filters = Some([user_id |-> None, tag |-> Asked(p, "tag")])
                   /\ Queried(p) => ExactlyRecords(inv[p].images,
                          { i \in ImageIds : db[i] # None
                               /\ Val(db[i]).tag = Asked(p, "tag") })
            /\ (Asked(p, "user_id") = None /\ Asked(p, "tag") = None) =>
                   /\ inv[p].filters = None
                   /\ Queried(p) => ExactlyRecords(inv[p].images,
                          { i \in ImageIds : db[i] # None })

\* A request with user_id u2 and tag b got u2's record, whose first tag is
\* not b, while another owner's record is stored too.
C14_Witness ==
    \E p \in Procs, i \in ImageIds :
        /\ Queried(p)
        /\ Asked(p, "user_id") = Some("u2") /\ Asked(p, "tag") = Some("b")
        /\ Len(inv[p].images) = 1
        /\ inv[p].images[1].tags[1] = "a"
        /\ db[i] # None /\ Val(db[i]).user_id = "u1"

\* The body of the upload request ev is a dict (or absent) without key name.
Lacks(ev, name) ==
    /\ ~IsStr(ev.body)
    /\ IF name = "image" THEN DictGet(ev.body, EmptyBody).image = None
                         ELSE DictGet(ev.body, EmptyBody).user_id = None

\* C15: an upload whose body lacks image or lacks user_id is answered 400
\* ('Image data is required', else 'user_id is required') in the step that
\* starts it, without a storage adapter call and with both stores unchanged.
C15_MissingField ==
    [][\A p \in Procs :
          (/\ Free(p)
           /\ inv'[p].handler = "upload" /\ inv'[p].calls = <<>>
           /\ (Lacks(inv'[p].event, "image") \/ Lacks(inv'[p].event, "user_id"))) =>
              /\ inv'[p].pc = "done"
              /\ inv'[p].resp = ErrorResp(400,
                     IF Lacks(inv'[p].event, "image") THEN "Image data is required"
                                                     ELSE "user_id is required")
              /\ s3' = s3 /\ db' = db /\ nextId' = nextId]_vars

\* An upload without user_id was answered 400 while an image is stored.
C15_Witness ==
    \E p \in Procs, i \in ImageIds :
        /\ Done(p, "upload")
        /\ Lacks(inv[p].event, "user_id") /\ ~Lacks(inv[p].event, "image")
        /\ inv[p].resp.statusCode = 400
        /\ inv[p].calls = <<>>
        /\ s3[i] # None /\ db[i] # None

\* The get request in slot p carries url=true (in any letter case).
UrlAsked(p) ==
    /\ inv[p].event.queryStringParameters # None
    /\ Val(inv[p].event.queryStringParameters).url \in {Some("true"), Some("TRUE")}

\* C16: a get with url=true never calls the object store's get, whatever
\* else the request carries; when the image_id has a record and the lookup
\* and the signing go through, it answers 200 with a link after those two
\* calls alone - also with download=true set and also when the image has no
\* blob.
C16_UrlNeverDownloads ==
    \A p \in Procs :
        (inv[p].handler = "get" /\ UrlAsked(p)) =>
            /\ "s3_get" \notin Range(inv[p].calls)
            /\ inv[p].pc # "s3_get"
            /\ (inv[p].pc = "done" /\ db[inv[p].image_id] # None
                  /\ TRUE \notin Range(inv[p].faults)) =>
                   /\ inv[p].resp.statusCode = 200
                   /\ inv[p].resp.url # None
                   /\ inv[p].calls = <<"db_get", "sign_url">>

\* A get with url=TRUE and download=true on a record whose blob is gone was
\* answered 200 with a link.
C16_Witness ==
    \E p \in Procs :
        /\ Done(p, "get") /\ UrlAsked(p)
        /\ Val(inv[p].event.queryStringParameters).download = Some("true")
        /\ db[inv[p].image_id] # None /\ s3[inv[p].image_id] = None
        /\ inv[p].resp.statusCode = 200
        /\ inv[p].resp.url # None

\* The get request in slot p carries neither url=true nor download=true.
NoFlagAsked(p) ==
    LET q == inv[p].event.queryStringParameters
    IN  \/ q = None
        \/ /\ Val(q).url \notin {Some("true"), Some("TRUE")}
           /\ Val(q).download \notin {Some("true"), Some("TRUE")}

\* C17: a get with neither url=true nor download=true makes no object-store
\* call at all; when the image_id has a record and the lookup goes through,
\* it answers 200 with the record's metadata (size a number) - also when the
\* blob is missing.
C17_MetadataOnly ==
    \A p \in Procs :
        (inv[p].handler = "get" /\ NoFlagAsked(p)) =>
            /\ Range(inv[p].calls) \subseteq {"db_get"}
            /\ inv[p].pc \in {"db_get", "done"}
            /\ (inv[p].pc = "done" /\ inv[p].calls # <<>>
                  /\ db[inv[p].image_id] # None /\ inv[p].faults = <<FALSE>>) =>
                   /\ inv[p].resp.statusCode = 200
                   /\ inv[p].resp.metadata =
                          Some([Val(db[inv[p].image_id]) EXCEPT !.size = PyInt(@.v)])
                   /\ inv[p].resp.url = None /\ inv[p].resp.image_data = None

\* A get without flags on a record whose blob is gone was answered 200 with
\* the metadata.
C17_Witness ==
    \E p \in Procs :
        /\ Done(p, "get") /\ NoFlagAsked(p)
        /\ inv[p].calls = <<"db_get">>
        /\ db[inv[p].image_id] # None /\ s3[inv[p].image_id] = None
        /\ inv[p].resp.statusCode = 200
        /\ inv[p].resp.metadata # None

\* The request in slot p has no image_id: pathParameters absent or null, or
\* a dict (the empty one included) without that key.
PathMissing(p) ==
    \/ inv[p].event.pathParameters = None
    \/ Val(inv[p].event.pathParameters).image_id = None

\* C18: a get or delete whose pathParameters are absent, empty or without
\* image_id is answered 400 'image_id is required' and calls no storage
\* adapter.
C18_MissingImageId ==
    \A p \in Procs :
        (inv[p].handler \in {"get", "delete"} /\ PathMissing(p)) =>
            /\ inv[p].pc = "done"
            /\ inv[p].resp = ErrorResp(400, "image_id is required")
            /\ inv[p].calls = <<>>

\* A get without pathParameters was answered 400 while an image is stored.
C18_Witness ==
    \E p \in Procs, i \in ImageIds :
        /\ Done(p, "get")
        /\ inv[p].event.pathParameters = None
        /\ inv[p].resp.statusCode = 400
        /\ db[i] # None

\* A delete whose pathParameters lack image_id was answered 400.
C18_DeleteWithoutId ==
    \E p \in Procs, i \in ImageIds :
        /\ Done(p, "delete")
        /\ inv[p].event.pathParameters = Some([image_id |-> None])
        /\ inv[p].resp.statusCode = 400
        /\ db[i] # None /\ s3[i] # None

\* The status codes each handler answers with.
Statuses(handler) ==
    IF handler = "upload" THEN {201, 400, 500}
    ELSE IF handler = "list" THEN {200, 500}
    ELSE {200, 400, 404, 500}

\* C19: no handler invocation raises: every invocation is at one of its
\* adapter calls or has returned a response, whose status is in {201, 400,
\* 500} for upload, {200, 500} for list and {200, 400, 404, 500} for get and
\* delete, whatever the request and whichever adapter calls fail; an
\* exception inside the handler (a null or malformed body, a value json.dumps
\* cannot serialise) is answered 500 'Internal server error'.
C19_NeverRaises ==
    \A p \in Procs :
        inv[p].handler # "none" =>
            /\ inv[p].pc \in {"s3_put", "db_put", "db_get", "s3_delete", "db_delete",
                              "sign_url", "s3_get", "query", "done"}
            /\ inv[p].pc = "done" => inv[p].resp.statusCode \in Statuses(inv[p].handler)
            /\ (inv[p].handler = "upload" /\ IsStr(inv[p].event.body)) =>
                   inv[p].resp = ErrorResp(500, "Internal server error")
            /\ (Done(p, "list") /\ inv[p].images # <<>>) =>
                   inv[p].resp = ErrorResp(500, "Internal server error")

\* A list whose query returned two records ended in the handler's except
\* branch.
C19_Witness ==
    \E p \in Procs :
        /\ Done(p, "list")
        /\ Len(inv[p].images) = 2
        /\ inv[p].resp = ErrorResp(500, "Internal server error")

\* An upload with a malformed body was answered 500 while an image is stored.
C19_MalformedBody ==
    \E p \in Procs, i \in ImageIds :
        /\ Done(p, "upload")
        /\ inv[p].event.body = StrBody("{")
        /\ inv[p].resp.statusCode = 500
        /\ s3[i] # None

\* s is an initial part of t.
Prefix(s, t) == Len(s) <= Len(t) /\ s = SubSeq(t, 1, Len(s))

\* C20 (as claimed): every handler invocation - upload, list, get or delete,
\* on every path - issues at most two storage adapter calls.
C20_AtMostTwoCalls ==
    \A p \in Procs : Len(inv[p].calls) <= 2

\* C20 (amended): every handler invocation issues its storage adapter calls
\* one after the other, at most two of them for upload (put object, put
\* record), list (query) and get (lookup, then sign or download) and at most
\* three for delete (lookup, delete object, delete record).
C20_CallBudget ==
    \A p \in Procs :
        /\ inv[p].handler = "upload" => Prefix(inv[p].calls, <<"s3_put", "db_put">>)
        /\ inv[p].handler = "list" => Prefix(inv[p].calls, <<"query">>)
        /\ inv[p].handler = "get" =>
               \/ Prefix(inv[p].calls, <<"db_get", "sign_url">>)
               \/ Prefix(inv[p].calls, <<"db_get", "s3_get">>)
        /\ inv[p].handler = "delete" =>
               Prefix(inv[p].calls, <<"db_get", "s3_delete", "db_delete">>)

\* A delete answered 200 after its three calls.
C20_Witness ==
    \E p \in Procs :
        /\ Done(p, "delete")
        /\ inv[p].calls = <<"db_get", "s3_delete", "db_delete">>
        /\ inv[p].resp.statusCode = 200

\* The upload in slot p generated image id i and is at step pc.
Uploading(p, i, pc) ==
    inv[p].handler = "upload" /\ inv[p].pc = pc /\ inv[p].image_id = i

\* C21: a stored image is read-only: in every step, a blob or a record held
\* under an image_id stays identical or is removed, and an empty entry is
\* filled only by the put of the one upload that generated that image_id; no
\* operation, later uploads included, changes a stored value to another one.
C21_ReadOnly ==
    [][\A i \in ImageIds :
          /\ s3[i] # None => s3'[i] \in {s3[i], None}
          /\ db[i] # None => db'[i] \in {db[i], None}
          /\ (s3[i] = None /\ s3'[i] # None) =>
                 \E p \in Procs : Uploading(p, i, "s3_put") /\ inv'[p].pc = "db_put"
          /\ (db[i] = None /\ db'[i] # None) =>
                 \E p \in Procs : Uploading(p, i, "db_put") /\ inv'[p].pc = "done"]_vars

\* A second upload has returned 201 and the first image is stored as its
\* upload wrote it.
C21_Witness ==
    \E p \in Procs, i \in ImageIds :
        /\ Done(p, "upload")
        /\ inv[p].resp.statusCode = 201
        /\ inv[p].image_id # i
        /\ intact[i] # None
        /\ s3[i] # None /\ db[i] # None
        /\ Val(db[i]).upload_date < Val(db[inv[p].image_id]).upload_date

\* The get in slot p read the record, asked for the blob, and both calls went
\* through.
Downloaded(p) ==
    /\ Done(p, "get")
    /\ inv[p].calls = <<"db_get", "s3_get">>
    /\ inv[p].faults = <<FALSE, FALSE>>

\* C22: with invocations running side by side, a get with download=true that
\* has read the record answers 404 'Image data not found' when, and only
\* when, its download finds no blob (or an empty one) - which a delete of the
\* same image_id, between its two delete calls, brings about while the
\* record still exists; nothing in the handlers orders the two.
C22_ReaderSeesDeletedBlob ==
    \A p \in Procs :
        Downloaded(p) =>
            /\ inv[p].resp.statusCode \in {200, 404}
            /\ inv[p].resp.statusCode = 404 =>
                   /\ inv[p].resp.error = "Image data not found"
                   /\ \/ s3[inv[p].image_id] = None
                      \/ Val(s3[inv[p].image_id]).Body = <<>>

\* The get read the record, the delete in the other slot then removed the
\* blob, and the get answered 404 'Image data not found' while the record is
\* still stored and the delete has its record delete ahead.
C22_Witness ==
    \E p, q \in Procs :
        /\ Downloaded(p)
        /\ inv[p].resp = ErrorResp(404, "Image data not found")
        /\ inv[q].handler = "delete" /\ inv[q].pc = "db_delete"
        /\ inv[q].image_id = inv[p].image_id
        /\ inv[q].faults = <<FALSE, FALSE>>
        /\ inv[p].afterUp
        /\ db[inv[p].image_id] # None
        /\ s3[inv[p].image_id] = None

\* The value of an optional request key, or what stands in for it.
OrElse(o, default) == IF o = None THEN default ELSE Val(o)

\* C23: the step in which an upload returns 201 stores the record it
\* returns: tag is the first element of tags when tags is non-empty and
\* absent when tags is empty or omitted, size is the length of the decoded
\* blob, and title, description, tags and content_type are '', '', [] and
\* 'image/jpeg' when the request omits them.
C23_RecordFields ==
    [][\A p \in Procs :
          (/\ inv[p].handler = "upload" /\ inv[p].pc = "db_put"
           /\ inv'[p].pc = "done" /\ inv'[p].resp.statusCode = 201) =>
              LET body == Val(inv[p].event.body)
                  rec == Val(inv'[p].resp.metadata)
                  tags == OrElse(body.tags, <<>>)
              IN  /\ inv'[p].resp.metadata # None
                  /\ db'[inv[p].image_id] =
                         Some([rec EXCEPT !.size = [t |-> "N", v |-> @.v]])
                  /\ rec.image_id = inv[p].image_id
                  /\ rec.user_id = Val(body.user_id)
                  /\ rec.tags = tags
                  /\ rec.tag = (IF tags = <<>> THEN None ELSE Some(tags[1]))
                  /\ \E b \in Blobs :
                         b64encode(b) = Val(body.image) /\ rec.size = PyInt(Len(b))
                  /\ rec.title = OrElse(body.title, "")
                  /\ rec.description = OrElse(body.description, "")
                  /\ rec.content_type = OrElse(body.content_type, "image/jpeg")]_vars

\* An upload with tags [a, b] and a 4-byte blob returned 201: tag a, size 4.
C23_Witness ==
    \E p \in Procs :
        /\ Done(p, "upload")
        /\ inv[p].resp.statusCode = 201
        /\ Val(inv[p].event.body).tags = Some(<<"a", "b">>)
        /\ Val(inv[p].resp.metadata).tag = Some("a")
        /\ Val(inv[p].resp.metadata).size = PyInt(4)
        /\ db[inv[p].image_id] # None

\* An upload without title, description, tags and content_type returned 201
\* with the defaults and no tag.
C23_Defaults ==
    \E p \in Procs :
        /\ Done(p, "upload")
        /\ inv[p].resp.statusCode = 201
        /\ Val(inv[p].event.body).tags = None
        /\ Val(inv[p].resp.metadata).tag = None
        /\ Val(inv[p].resp.metadata).tags = <<>>
        /\ Val(inv[p].resp.metadata).content_type = "image/jpeg"

\* The adapter call that ended the invocation in slot p failed in the backend.
LastFailed(p, name) ==
    /\ inv[p].pc = "done" /\ inv[p].calls # <<>>
    /\ inv[p].calls[Len(inv[p].calls)] = name
    /\ inv[p].faults[Len(inv[p].faults)]

\* C24: no storage adapter operation raises to its caller: when the backend
\* fails, each returns its failure sentinel (False, None or []) with the store
\* as it was, and the handler goes on with that value: it answers with its
\* own message for the sentinel, a delete still makes its second delete call,
\* and no failed adapter call ends in the handler's 'Internal server error'.
C24_AdaptersNeverRaise ==
    /\ \A i \in ImageIds :
           /\ upload_image(s3, i, <<72, 105>>, "image/jpeg", FALSE) = [ret |-> FALSE, s3 |-> s3]
           /\ download_image(s3, i, FALSE) = None
           /\ s3_delete_image(s3, i, FALSE) = [ret |-> FALSE, s3 |-> s3]
           /\ get_image_url(i, 3600, FALSE) = None
           /\ get_image_metadata(db, i, FALSE) = None
           /\ delete_image_metadata(db, i, FALSE) = [ret |-> FALSE, db |-> db]
           /\ db[i] # None =>
                  save_image_metadata(db, Val(db[i]), FALSE) = [ret |-> FALSE, db |-> db]
    /\ list_images(db, None, FALSE) = { <<>> }
    /\ \A p \in Procs :
           /\ (inv[p].pc = "done" /\ TRUE \in Range(inv[p].faults)) =>
                  inv[p].resp.error # "Internal server error"
           /\ LastFailed(p, "s3_put") =>
                  inv[p].resp = ErrorResp(500, "Failed to upload image to S3")
           /\ LastFailed(p, "db_put") =>
                  inv[p].resp = ErrorResp(500, "Failed to save metadata")
           /\ LastFailed(p, "db_get") =>
                  inv[p].resp = ErrorResp(404, "Image not found")
           /\ LastFailed(p, "sign_url") =>
                  inv[p].resp = ErrorResp(500, "Failed to generate presigned URL")
           /\ LastFailed(p, "s3_get") =>
                  inv[p].resp = ErrorResp(404, "Image data not found")
           /\ LastFailed(p, "query") =>
                  inv[p].resp.statusCode = 200 /\ inv[p].resp.count = Some(0)
           /\ (Done(p, "delete") /\ Len(inv[p].faults) > 1 /\ inv[p].faults[2]) =>
                  /\ inv[p].calls = <<"db_get", "s3_delete", "db_delete">>
                  /\ inv[p].resp.error = "Failed to delete image completely"
                  /\ inv[p].resp.s3_deleted = Some(FALSE)

\* A delete whose blob delete failed went on to delete the record and
\* reported both results.
C24_Witness ==
    \E p \in Procs :
        /\ Done(p, "delete")
        /\ inv[p].faults = <<FALSE, TRUE, FALSE>>
        /\ inv[p].resp.statusCode = 500
        /\ inv[p].resp.s3_deleted = Some(FALSE)
        /\ inv[p].resp.metadata_deleted = Some(TRUE)
        /\ db[inv[p].image_id] = None /\ s3[inv[p].image_id] # None

\* The get in slot p has found the record of its image_id.
FoundRecord(p) ==
    /\ inv[p].handler = "get"
    /\ \/ inv[p].pc = "s3_get"
       \/ inv[p].pc = "done" /\ inv[p].calls # <<>> /\ inv[p].resp.error # "Image not found"

\* C25: upload puts the blob before the record, so with uploads, gets and
\* lists running side by side and no delete, every record has its blob:
\* an upload in flight has stored nothing or the blob alone, a get that found
\* the record finds the blob, and a list returns no record without blob.
C25_BlobBeforeRecord ==
    /\ \A i \in ImageIds : db[i] # None => s3[i] # None
    /\ \A p \in Procs :
           /\ Uploading(p, inv[p].image_id, "s3_put") =>
                  s3[inv[p].image_id] = None /\ db[inv[p].image_id] = None
           /\ Uploading(p, inv[p].image_id, "db_put") =>
                  s3[inv[p].image_id] # None /\ db[inv[p].image_id] = None
           /\ FoundRecord(p) => s3[inv[p].image_id] # None
           /\ Queried(p) =>
                  \A k \in 1..Len(inv[p].images) : s3[inv[p].images[k].image_id] # None

\* While an upload has stored its blob and not yet its record, a get of that
\* image_id in the other slot was answered 404 'Image not found'.
C25_Witness ==
    \E p, q \in Procs :
        /\ Uploading(q, inv[q].image_id, "db_put")
        /\ Done(p, "get")
        /\ inv[p].image_id = inv[q].image_id
        /\ inv[p].faults = <<FALSE>>
        /\ inv[p].resp = ErrorResp(404, "Image not found")
        /\ s3[inv[q].image_id] # None /\ db[inv[q].image_id] = None

\* A get that ran beside the upload found the record and downloaded the blob.
C25_ReaderAfterRecord ==
    \E p, q \in Procs :
        /\ Done(q, "upload") /\ inv[q].resp.statusCode = 201
        /\ Downloaded(p) /\ ~inv[p].afterUp
        /\ inv[p].image_id = inv[q].image_id
        /\ inv[p].resp.statusCode = 200

\* Image id i has an orphaned blob: a blob without record, left by an upload
\* that has ended or by a delete.
Orphan(i) ==
    /\ s3[i] # None /\ db[i] = None
    /\ \A p \in Procs : ~Uploading(p, i, "db_put")

\* The lookup step of a delete on image id i ends the delete with 404 'Image
\* not found', db_get being its only call.
LookupEndsDelete(i) ==
    \A p \in Procs :
        (/\ inv[p].handler = "delete" /\ inv[p].image_id = i
         /\ inv[p].pc = "db_get" /\ inv'[p] # inv[p]) =>
            /\ inv'[p].pc = "done"
            /\ inv'[p].resp = ErrorResp(404, "Image not found")
            /\ inv'[p].calls = <<"db_get">>

\* A delete of image id i has passed its existence check and has a delete
\* call ahead.
DeletePending(i) ==
    \E p \in Procs :
        /\ inv[p].handler = "delete" /\ inv[p].image_id = i
        /\ inv[p].pc \in {"s3_delete", "db_delete"}

\* C26 (as claimed): an orphaned blob is permanent: from the moment a blob
\* is stored under an image_id without record, every step of every handler
\* invocation leaves the blob in place and the record absent, and the lookup
\* of a delete on that image_id ends it with 404.
C26_OrphanStaysAsClaimed ==
    [][\A i \in ImageIds :
          Orphan(i) =>
              /\ s3'[i] = s3[i] /\ db'[i] = None
              /\ LookupEndsDelete(i)]_vars

\* C26 (amended): an orphaned blob is permanent once no delete of its
\* image_id that passed the existence check earlier is still running: from
\* then on every step leaves the blob in place and the record absent, and
\* every delete on that image_id ends at its lookup with 404, before any
\* delete call.
C26_OrphanStays ==
    [][\A i \in ImageIds :
          (Orphan(i) /\ ~DeletePending(i)) =>
              /\ s3'[i] = s3[i] /\ db'[i] = None
              /\ ~DeletePending(i)'
              /\ \A p \in Procs : ~Uploading(p, i, "db_put")'
              /\ LookupEndsDelete(i)]_vars

\* A delete on an image_id whose upload failed to write the record was
\* answered 404 with the backend working, and the blob is still stored.
C26_Witness ==
    \E p \in Procs :
        /\ Done(p, "delete")
        /\ inv[p].calls = <<"db_get">> /\ inv[p].faults = <<FALSE>>
        /\ inv[p].resp.statusCode = 404
        /\ Orphan(inv[p].image_id)
        /\ ~inv[p].afterUp /\ ~inv[p].afterDel
        /\ inv[p].image_id \notin partial

\* Slot p takes a step of its delete, from pc, and no call of the delete has
\* failed so far.
RetryStep(p, pc) ==
    /\ inv[p].pc = pc /\ inv'[p] # inv[p]
    /\ TRUE \notin Range(inv'[p].faults)

\* C27: a delete that ended with the blob deleted and the record delete
\* failed is completed by a retry whose calls go through: the record passes
\* the existence check, the object-store delete of the missing blob reports
\* success, and the record delete then ends the retry with 200, record and
\* blob both absent.
C27_RetryCompletes ==
    [][\A p \in Procs :
          (/\ inv[p].handler = "delete"
           /\ inv[p].image_id \in partial
           /\ db[inv[p].image_id] # None /\ s3[inv[p].image_id] = None) =>
              /\ RetryStep(p, "db_get") => inv'[p].pc = "s3_delete"
              /\ RetryStep(p, "s3_delete") =>
                     inv'[p].pc = "db_delete" /\ inv'[p].s3_deleted
              /\ RetryStep(p, "db_delete") =>
                     /\ inv'[p].pc = "done"
                     /\ inv'[p].resp.statusCode = 200
                     /\ db'[inv[p].image_id] = None /\ s3'[inv[p].image_id] = None
                     /\ inv[p].image_id \in del200']_vars

\* The retry of a partly failed delete returned 200.
C27_Witness ==
    \E p \in Procs :
        /\ Done(p, "delete")
        /\ inv[p].image_id \in partial
        /\ inv[p].faults = <<FALSE, FALSE, FALSE>>
        /\ inv[p].resp.statusCode = 200
        /\ db[inv[p].image_id] = None /\ s3[inv[p].image_id] = None

\* C28: a delete returns 200 only when both of its delete calls reported
\* success, and in every state from then on - with other requests running
\* beside it or after it - neither the record store nor the object store
\* holds an entry for that image_id.
C28_DeletedForGood ==
    /\ \A p \in Procs :
           (Done(p, "delete") /\ inv[p].resp.statusCode = 200) =>
               /\ inv[p].calls = <<"db_get", "s3_delete", "db_delete">>
               /\ inv[p].faults = <<FALSE, FALSE, FALSE>>
               /\ inv[p].image_id \in del200
    /\ \A i \in del200 : s3[i] = None /\ db[i] = None

\* A delete returned 200 while another delete of the same image_id, past its
\* existence check, still has its delete calls ahead.
C28_Witness ==
    \E p, q \in Procs :
        /\ Done(p, "delete") /\ inv[p].resp.statusCode = 200
        /\ inv[q].handler = "delete" /\ inv[q].pc = "s3_delete"
        /\ inv[q].image_id = inv[p].image_id
        /\ s3[inv[p].image_id] = None /\ db[inv[p].image_id] = None

\* C29: get and list are read-only: every step of a get or list invocation,
\* on any path and with any flags or filters, leaves both stores unchanged,
\* and the only adapter calls these handlers make are the record lookup, the
\* link signing, the blob download and the query.
C29_ReadersWriteNothing ==
    [][\A p \in Procs :
          (inv'[p].handler \in {"get", "list"} /\ inv'[p] # inv[p]) =>
              /\ s3' = s3 /\ db' = db
              /\ Range(inv'[p].calls) \subseteq {"db_get", "sign_url", "s3_get", "query"}]_vars

\* A download that found the record and no blob has ended; the record is
\* still stored.
C29_Witness ==
    \E p \in Procs :
        /\ Downloaded(p)
        /\ inv[p].resp.statusCode = 404
        /\ inv[p].image_id \in partial
        /\ db[inv[p].image_id] # None /\ s3[inv[p].image_id] = None

====
